---- MODULE Spec2Model ----
(***************************************************************************)
(* MindBalance AI (app.py): the Mental Health Score model.                 *)
(*                                                                         *)
(* The script is re-run by Streamlit on every interaction.  A run reads    *)
(* the eleven widget values and, when the run was triggered by the         *)
(* "Compute" button, normalizes them, forms the weighted score, picks the  *)
(* banner and builds the recommendation list.  A run triggered by a widget *)
(* change renders the form only.                                           *)
(*                                                                         *)
(* Real numbers (Python floats) are modelled as exact rationals <<n, d>>   *)
(* in lowest terms with d > 0; floating-point rounding is not modelled.    *)
(***************************************************************************)
EXTENDS Integers, Sequences, FiniteSets, TLC

VARIABLES
    \* the widgets of the form (app.py 58-74) that the model reads
    sleep_hours, daily_steps, diet_quality, social_interaction,
    exercise_frequency, exercise_duration, screen_time,
    stress_level, anxiety_level, depression_level, happiness_level,
    \* the module-level weight table (app.py 29-41)
    FEATURE_WEIGHTS,
    \* what the last run of the script rendered (app.py 80-172)
    mhs_score, banner, balloons, recommendations, shown,
    \* number of widget changes made so far in the session
    edits,
    \* a direct call of one of the three normalizers: arguments and result
    fn, x, min_val, max_val, ret

inputVars == <<sleep_hours, daily_steps, diet_quality, social_interaction,
               exercise_frequency, exercise_duration, screen_time,
               stress_level, anxiety_level, depression_level, happiness_level>>
outputVars == <<mhs_score, banner, balloons, recommendations, shown>>
callVars == <<fn, x, min_val, max_val, ret>>
vars == <<inputVars, FEATURE_WEIGHTS, outputVars, edits, callVars>>

----------------------------------------------------------------------------
(* Bounds of the model *)

\* widget changes explored in one session
MaxEdits == 2
\* direct normalizer calls: x ranges over -XFar .. XFar in steps of 1/10
XFar == 13
\* direct normalizer calls: min_val and max_val range over -MaxBound .. MaxBound
MaxBound == 2

----------------------------------------------------------------------------
(* Exact rational arithmetic standing for Python's float arithmetic *)

\* Python's None where a number is expected: no rational is the empty tuple
None == <<>>

Abs(n) == IF n < 0 THEN -n ELSE n

RECURSIVE Gcd(_, _)
Gcd(m, n) == IF n = 0 THEN m ELSE Gcd(n, m % n)

Rat(n, d) ==
    LET g == Gcd(Abs(n), Abs(d))
        s == IF d < 0 THEN -1 ELSE 1
    IN  <<s * (n \div g), s * (d \div g)>>

R(n) == <<n, 1>>

RAdd(p, q) ==
    LET g == Gcd(p[2], q[2])
    IN  Rat(p[1] * (q[2] \div g) + q[1] * (p[2] \div g), (p[2] \div g) * q[2])

RNeg(p) == <<-p[1], p[2]>>

RSub(p, q) == RAdd(p, RNeg(q))

\* p and q are in lowest terms, so the cross-cancelled product is too
RMul(p, q) ==
    LET g1 == Gcd(Abs(p[1]), q[2])
        g2 == Gcd(Abs(q[1]), p[2])
    IN  <<(p[1] \div g1) * (q[1] \div g2), (p[2] \div g2) * (q[2] \div g1)>>

\* q # 0
RDiv(p, q) ==
    RMul(p, IF q[1] < 0 THEN <<-q[2], -q[1]>> ELSE <<q[2], q[1]>>)

\* comparison over the least common denominator
RLt(p, q) ==
    LET g == Gcd(p[2], q[2])
    IN  p[1] * (q[2] \div g) < q[1] * (p[2] \div g)

RLe(p, q) ==
    LET g == Gcd(p[2], q[2])
    IN  p[1] * (q[2] \div g) <= q[1] * (p[2] \div g)

\* np.clip(v, lo, hi) = minimum(maximum(v, lo), hi)
clip(v, lo, hi) ==
    LET m == IF RLt(v, lo) THEN lo ELSE v
    IN  IF RLt(hi, m) THEN hi ELSE m

----------------------------------------------------------------------------
(* The normalizers (app.py 9-26) *)

normalize_positive_noclip(xv, lo, hi) ==
    RDiv(RSub(xv, lo), RSub(hi, lo))

normalize_positive(xv, lo, hi) ==
    clip(RDiv(RSub(xv, lo), RSub(hi, lo)), R(0), R(1))

normalize_negative_nomin(xv, lo, hi) ==
    RSub(R(1), RDiv(xv, RSub(hi, lo)))

normalize_negative_flipped(xv, lo, hi) ==
    clip(RDiv(RSub(xv, lo), RSub(hi, lo)), R(0), R(1))

normalize_negative(xv, lo, hi) ==
    clip(RSub(R(1), RDiv(RSub(xv, lo), RSub(hi, lo))), R(0), R(1))

normalize_sleep_gap(xv) ==
    IF RLt(xv, R(4)) \/ RLt(R(12), xv) THEN R(0)
    ELSE IF RLe(R(4), xv) /\ RLt(xv, R(7)) THEN RDiv(RSub(xv, R(4)), R(3))
    ELSE IF RLt(R(7), xv) /\ RLe(xv, R(9)) THEN R(1)
    ELSE IF RLt(R(9), xv) /\ RLe(xv, R(12))
         THEN RSub(R(1), RDiv(RSub(xv, R(9)), R(3)))
    ELSE None

\* the if/elif chain has no else: an input matching no branch returns None
normalize_sleep(xv) ==
    IF RLt(xv, R(4)) \/ RLt(R(12), xv) THEN R(0)
    ELSE IF RLe(R(4), xv) /\ RLt(xv, R(7)) THEN RDiv(RSub(xv, R(4)), R(3))
    ELSE IF RLe(R(7), xv) /\ RLe(xv, R(9)) THEN R(1)
    ELSE IF RLt(R(9), xv) /\ RLe(xv, R(12))
         THEN RSub(R(1), RDiv(RSub(xv, R(9)), R(3)))
    ELSE None

----------------------------------------------------------------------------
(* The weight table (app.py 29-41): 0.1 is 1/10 and 0.05 is 1/20 *)

Features ==
    {"Sleep_Hours", "Daily_Steps", "Exercise_Frequency", "Exercise_Duration",
     "Diet_Quality", "Social_Interaction", "Happiness_Level",
     "Screen_Time_Hours", "Stress_Level", "Anxiety_Level", "Depression_Level"}

WeightTable_heavy ==
    [f \in Features |-> Rat(1, 10)]

WeightTable ==
    [f \in Features |->
        IF f \in {"Anxiety_Level", "Depression_Level"} THEN Rat(1, 20)
        ELSE Rat(1, 10)]

----------------------------------------------------------------------------
(* The compute branch (app.py 80-172) as functions of the widget values *)

Inputs ==
    [Sleep_Hours |-> sleep_hours, Daily_Steps |-> daily_steps,
     Exercise_Frequency |-> exercise_frequency,
     Exercise_Duration |-> exercise_duration,
     Diet_Quality |-> diet_quality, Social_Interaction |-> social_interaction,
     Happiness_Level |-> happiness_level, Screen_Time_Hours |-> screen_time,
     Stress_Level |-> stress_level, Anxiety_Level |-> anxiety_level,
     Depression_Level |-> depression_level]

\* the weighted sum with the last term left out
score_norm_short(in, w) ==
    LET s_sleep == normalize_sleep(in.Sleep_Hours)
        s_steps == normalize_positive(R(in.Daily_Steps), R(0), R(30000))
        s_exfreq == normalize_positive(R(in.Exercise_Frequency), R(0), R(7))
        s_exdur == normalize_positive(R(in.Exercise_Duration), R(0), R(180))
        s_diet == normalize_positive(R(in.Diet_Quality), R(1), R(5))
        s_social == normalize_positive(R(in.Social_Interaction), R(0), R(20))
        s_happy == normalize_positive(R(in.Happiness_Level), R(1), R(10))
        s_screen == normalize_negative(in.Screen_Time_Hours, R(0), R(12))
        s_stress == normalize_negative(R(in.Stress_Level), R(1), R(10))
        s_anxiety == normalize_negative(R(in.Anxiety_Level), R(1), R(10))
        s_depression == normalize_negative(R(in.Depression_Level), R(1), R(10))
    IN  RAdd(RAdd(RAdd(RAdd(RAdd(RAdd(RAdd(RAdd(RAdd(
        RMul(s_sleep, w["Sleep_Hours"]),
        RMul(s_steps, w["Daily_Steps"])),
        RMul(s_exfreq, w["Exercise_Frequency"])),
        RMul(s_exdur, w["Exercise_Duration"])),
        RMul(s_diet, w["Diet_Quality"])),
        RMul(s_social, w["Social_Interaction"])),
        RMul(s_happy, w["Happiness_Level"])),
        RMul(s_screen, w["Screen_Time_Hours"])),
        RMul(s_stress, w["Stress_Level"])),
        RMul(s_anxiety, w["Anxiety_Level"]))

\* app.py 82-107: the eleven normalized scores and their weighted sum
score_norm(in, w) ==
    LET s_sleep == normalize_sleep(in.Sleep_Hours)
        s_steps == normalize_positive(R(in.Daily_Steps), R(0), R(30000))
        s_exfreq == normalize_positive(R(in.Exercise_Frequency), R(0), R(7))
        s_exdur == normalize_positive(R(in.Exercise_Duration), R(0), R(180))
        s_diet == normalize_positive(R(in.Diet_Quality), R(1), R(5))
        s_social == normalize_positive(R(in.Social_Interaction), R(0), R(20))
        s_happy == normalize_positive(R(in.Happiness_Level), R(1), R(10))
        s_screen == normalize_negative(in.Screen_Time_Hours, R(0), R(12))
        s_stress == normalize_negative(R(in.Stress_Level), R(1), R(10))
        s_anxiety == normalize_negative(R(in.Anxiety_Level), R(1), R(10))
        s_depression == normalize_negative(R(in.Depression_Level), R(1), R(10))
    IN  RAdd(RAdd(RAdd(RAdd(RAdd(RAdd(RAdd(RAdd(RAdd(RAdd(
        RMul(s_sleep, w["Sleep_Hours"]),
        RMul(s_steps, w["Daily_Steps"])),
        RMul(s_exfreq, w["Exercise_Frequency"])),
        RMul(s_exdur, w["Exercise_Duration"])),
        RMul(s_diet, w["Diet_Quality"])),
        RMul(s_social, w["Social_Interaction"])),
        RMul(s_happy, w["Happiness_Level"])),
        RMul(s_screen, w["Screen_Time_Hours"])),
        RMul(s_stress, w["Stress_Level"])),
        RMul(s_anxiety, w["Anxiety_Level"])),
        RMul(s_depression, w["Depression_Level"]))

\* app.py 109
MhsScore(in, w) == RMul(R(100), score_norm(in, w))

Banner_strict(score) ==
    IF RLt(R(75), score) THEN "success"
    ELSE IF RLt(R(50), score) THEN "info"
    ELSE "warning"

\* app.py 117-123: st.success / st.info / st.warning
Banner(score) ==
    IF RLe(R(75), score) THEN "success"
    ELSE IF RLe(R(50), score) THEN "info"
    ELSE "warning"

\* app.py 132-135
SleepAdvice(in) ==
    IF RLt(in.Sleep_Hours, R(7)) THEN <<"Sleep">>
    ELSE IF RLt(R(9), in.Sleep_Hours) THEN <<"Sleep (oversleeping)">>
    ELSE <<>>

\* app.py 138-139
ScreenAdvice(in) ==
    IF RLt(R(5), in.Screen_Time_Hours) THEN <<"Screen Time">> ELSE <<>>

ExerciseAdvice_independent(in) ==
    (IF in.Exercise_Frequency < 3 THEN <<"Exercise">> ELSE <<>>)
    \o (IF in.Exercise_Duration < 30 THEN <<"Exercise Duration">> ELSE <<>>)

\* app.py 142-145
ExerciseAdvice(in) ==
    IF in.Exercise_Frequency < 3 THEN <<"Exercise">>
    ELSE IF in.Exercise_Duration < 30 THEN <<"Exercise Duration">>
    ELSE <<>>

\* app.py 148-149
DietAdvice(in) == IF in.Diet_Quality < 3 THEN <<"Diet">> ELSE <<>>

\* app.py 152-157
StressAdvice(in) == IF in.Stress_Level > 6 THEN <<"Stress">> ELSE <<>>

AnxietyAdvice(in) == IF in.Anxiety_Level > 6 THEN <<"Anxiety">> ELSE <<>>

MoodAdvice(in) == IF in.Depression_Level > 6 THEN <<"Mood">> ELSE <<>>

\* app.py 160-161
SocialAdvice(in) ==
    IF in.Social_Interaction < 3 THEN <<"Social Life">> ELSE <<>>

\* app.py 164-165
HappinessAdvice(in) ==
    IF in.Happiness_Level < 5 THEN <<"Happiness">> ELSE <<>>

Recommendations_reordered(in) ==
    SleepAdvice(in) \o ExerciseAdvice(in) \o ScreenAdvice(in) \o DietAdvice(in)
    \o StressAdvice(in) \o AnxietyAdvice(in) \o MoodAdvice(in)
    \o SocialAdvice(in) \o HappinessAdvice(in)

\* app.py 129-165: the list after the appends, in program order
Recommendations(in) ==
    SleepAdvice(in) \o ScreenAdvice(in) \o ExerciseAdvice(in) \o DietAdvice(in)
    \o StressAdvice(in) \o AnxietyAdvice(in) \o MoodAdvice(in)
    \o SocialAdvice(in) \o HappinessAdvice(in)

AllGood == "Great job!"

Shown_empty(recs) == recs

\* app.py 168-172: one bullet per tip, or the single success message
Shown(recs) == IF recs # <<>> THEN recs ELSE <<AllGood>>

----------------------------------------------------------------------------
(* The form (app.py 58-74) *)

\* widget defaults
Defaults ==
    [Sleep_Hours |-> R(7), Daily_Steps |-> 5000, Exercise_Frequency |-> 3,
     Exercise_Duration |-> 45, Diet_Quality |-> 3, Social_Interaction |-> 5,
     Happiness_Level |-> 7, Screen_Time_Hours |-> R(4), Stress_Level |-> 5,
     Anxiety_Level |-> 5, Depression_Level |-> 5]

AllOptimal ==
    [Sleep_Hours |-> R(8), Daily_Steps |-> 30000, Exercise_Frequency |-> 7,
     Exercise_Duration |-> 180, Diet_Quality |-> 5, Social_Interaction |-> 20,
     Happiness_Level |-> 10, Screen_Time_Hours |-> R(0), Stress_Level |-> 1,
     Anxiety_Level |-> 1, Depression_Level |-> 1]

AllWorst ==
    [Sleep_Hours |-> R(0), Daily_Steps |-> 0, Exercise_Frequency |-> 0,
     Exercise_Duration |-> 0, Diet_Quality |-> 1, Social_Interaction |-> 0,
     Happiness_Level |-> 1, Screen_Time_Hours |-> R(12), Stress_Level |-> 10,
     Anxiety_Level |-> 10, Depression_Level |-> 10]

Balanced ==
    [Sleep_Hours |-> Rat(15, 2), Daily_Steps |-> 5000, Exercise_Frequency |-> 4,
     Exercise_Duration |-> 45, Diet_Quality |-> 4, Social_Interaction |-> 5,
     Happiness_Level |-> 7, Screen_Time_Hours |-> R(3), Stress_Level |-> 3,
     Anxiety_Level |-> 3, Depression_Level |-> 3]

Strained ==
    [Sleep_Hours |-> R(5), Daily_Steps |-> 5000, Exercise_Frequency |-> 1,
     Exercise_Duration |-> 45, Diet_Quality |-> 2, Social_Interaction |-> 1,
     Happiness_Level |-> 3, Screen_Time_Hours |-> R(6), Stress_Level |-> 8,
     Anxiety_Level |-> 7, Depression_Level |-> 8]

\* all optimal but for exercise frequency, exercise duration and anxiety
FavorableEdge ==
    [Sleep_Hours |-> R(8), Daily_Steps |-> 30000, Exercise_Frequency |-> 0,
     Exercise_Duration |-> 0, Diet_Quality |-> 5, Social_Interaction |-> 20,
     Happiness_Level |-> 10, Screen_Time_Hours |-> R(0), Stress_Level |-> 1,
     Anxiety_Level |-> 10, Depression_Level |-> 1]

\* the first five features optimal, the other six worst
FairEdge ==
    [Sleep_Hours |-> R(8), Daily_Steps |-> 30000, Exercise_Frequency |-> 7,
     Exercise_Duration |-> 180, Diet_Quality |-> 5, Social_Interaction |-> 0,
     Happiness_Level |-> 1, Screen_Time_Hours |-> R(12), Stress_Level |-> 10,
     Anxiety_Level |-> 10, Depression_Level |-> 10]

\* the widget values a run of the script starts from: the defaults of a
\* fresh session, or values the session's widgets already hold
Presets ==
    {Defaults, AllOptimal, AllWorst, Balanced, Strained, FavorableEdge, FairEdge}

\* values a widget is moved to, all within the widget's range
SleepValues == {Rat(11, 2), R(9), R(12)}
StepsValues == {1, 30000}
DietValues == {2, 3}
SocialValues == {2, 3}
FrequencyValues == {2, 3}
DurationValues == {29, 30}
ScreenValues == {R(5), Rat(11, 2)}
LevelValues == {6, 7}
HappinessValues == {4, 5}

\* no st.success / st.info / st.warning banner on the page
NoBanner == "none"

\* no normalizer has been called
NoFn == "none"

\* a run that the button did not trigger renders no result
NoResult ==
    /\ mhs_score' = None
    /\ banner' = NoBanner
    /\ balloons' = FALSE
    /\ recommendations' = <<>>
    /\ shown' = <<>>

Rerun ==
    /\ edits < MaxEdits
    /\ edits' = edits + 1
    /\ NoResult
    /\ UNCHANGED <<FEATURE_WEIGHTS, callVars>>

SetSleepHours ==
    /\ \E v \in SleepValues : v # sleep_hours /\ sleep_hours' = v
    /\ Rerun
    /\ UNCHANGED <<daily_steps, diet_quality, social_interaction,
                   exercise_frequency, exercise_duration, screen_time,
                   stress_level, anxiety_level, depression_level,
                   happiness_level>>

SetDailySteps ==
    /\ \E v \in StepsValues : v # daily_steps /\ daily_steps' = v
    /\ Rerun
    /\ UNCHANGED <<sleep_hours, diet_quality, social_interaction,
                   exercise_frequency, exercise_duration, screen_time,
                   stress_level, anxiety_level, depression_level,
                   happiness_level>>

SetDietQuality ==
    /\ \E v \in DietValues : v # diet_quality /\ diet_quality' = v
    /\ Rerun
    /\ UNCHANGED <<sleep_hours, daily_steps, social_interaction,
                   exercise_frequency, exercise_duration, screen_time,
                   stress_level, anxiety_level, depression_level,
                   happiness_level>>

SetSocialInteraction ==
    /\ \E v \in SocialValues : v # social_interaction /\ social_interaction' = v
    /\ Rerun
    /\ UNCHANGED <<sleep_hours, daily_steps, diet_quality,
                   exercise_frequency, exercise_duration, screen_time,
                   stress_level, anxiety_level, depression_level,
                   happiness_level>>

SetExerciseFrequency ==
    /\ \E v \in FrequencyValues : v # exercise_frequency /\ exercise_frequency' = v
    /\ Rerun
    /\ UNCHANGED <<sleep_hours, daily_steps, diet_quality, social_interaction,
                   exercise_duration, screen_time,
                   stress_level, anxiety_level, depression_level,
                   happiness_level>>

SetExerciseDuration ==
    /\ \E v \in DurationValues : v # exercise_duration /\ exercise_duration' = v
    /\ Rerun
    /\ UNCHANGED <<sleep_hours, daily_steps, diet_quality, social_interaction,
                   exercise_frequency, screen_time,
                   stress_level, anxiety_level, depression_level,
                   happiness_level>>

SetScreenTime ==
    /\ \E v \in ScreenValues : v # screen_time /\ screen_time' = v
    /\ Rerun
    /\ UNCHANGED <<sleep_hours, daily_steps, diet_quality, social_interaction,
                   exercise_frequency, exercise_duration,
                   stress_level, anxiety_level, depression_level,
                   happiness_level>>

SetStressLevel ==
    /\ \E v \in LevelValues : v # stress_level /\ stress_level' = v
    /\ Rerun
    /\ UNCHANGED <<sleep_hours, daily_steps, diet_quality, social_interaction,
                   exercise_frequency, exercise_duration, screen_time,
                   anxiety_level, depression_level, happiness_level>>

SetAnxietyLevel ==
    /\ \E v \in LevelValues : v # anxiety_level /\ anxiety_level' = v
    /\ Rerun
    /\ UNCHANGED <<sleep_hours, daily_steps, diet_quality, social_interaction,
                   exercise_frequency, exercise_duration, screen_time,
                   stress_level, depression_level, happiness_level>>

SetDepressionLevel ==
    /\ \E v \in LevelValues : v # depression_level /\ depression_level' = v
    /\ Rerun
    /\ UNCHANGED <<sleep_hours, daily_steps, diet_quality, social_interaction,
                   exercise_frequency, exercise_duration, screen_time,
                   stress_level, anxiety_level, happiness_level>>

SetHappinessLevel ==
    /\ \E v \in HappinessValues : v # happiness_level /\ happiness_level' = v
    /\ Rerun
    /\ UNCHANGED <<sleep_hours, daily_steps, diet_quality, social_interaction,
                   exercise_frequency, exercise_duration, screen_time,
                   stress_level, anxiety_level, depression_level>>

\* app.py 80-172: the run triggered by the button.  A second click on
\* unchanged widgets renders the same result again, so only the first counts.
Compute ==
    /\ mhs_score = None
    /\ LET score == MhsScore(Inputs, FEATURE_WEIGHTS)
           recs == Recommendations(Inputs)
       IN  /\ mhs_score' = score
           /\ banner' = Banner(score)
           /\ balloons' = RLe(R(75), score)
           /\ recommendations' = recs
           /\ shown' = Shown(recs)
    /\ UNCHANGED <<inputVars, FEATURE_WEIGHTS, edits, callVars>>

NoCall ==
    /\ fn = NoFn
    /\ x = R(0)
    /\ min_val = R(0)
    /\ max_val = R(1)
    /\ ret = None

InitForm(p) ==
    /\ sleep_hours = p.Sleep_Hours
    /\ daily_steps = p.Daily_Steps
    /\ diet_quality = p.Diet_Quality
    /\ social_interaction = p.Social_Interaction
    /\ exercise_frequency = p.Exercise_Frequency
    /\ exercise_duration = p.Exercise_Duration
    /\ screen_time = p.Screen_Time_Hours
    /\ stress_level = p.Stress_Level
    /\ anxiety_level = p.Anxiety_Level
    /\ depression_level = p.Depression_Level
    /\ happiness_level = p.Happiness_Level
    /\ FEATURE_WEIGHTS = WeightTable
    /\ mhs_score = None
    /\ banner = NoBanner
    /\ balloons = FALSE
    /\ recommendations = <<>>
    /\ shown = <<>>
    /\ edits = 0

Init ==
    /\ \E p \in Presets : InitForm(p)
    /\ NoCall

Next ==
    \/ SetSleepHours
    \/ SetDailySteps
    \/ SetDietQuality
    \/ SetSocialInteraction
    \/ SetExerciseFrequency
    \/ SetExerciseDuration
    \/ SetScreenTime
    \/ SetStressLevel
    \/ SetAnxietyLevel
    \/ SetDepressionLevel
    \/ SetHappinessLevel
    \/ Compute

Spec == Init /\ [][Next]_vars

----------------------------------------------------------------------------
(* Direct calls of the normalizers on arbitrary arguments *)

\* x in tenths, and two values far outside every range
XValues ==
    {Rat(k, 10) : k \in (-XFar * 10) .. (XFar * 10)}
    \cup {R(-1000000), R(1000000)}

BoundValues == {R(k) : k \in (-MaxBound) .. MaxBound}

InitCall ==
    /\ InitForm(Defaults)
    /\ fn = NoFn
    /\ ret = None
    /\ x \in XValues
    /\ min_val \in BoundValues
    /\ max_val \in {b \in BoundValues : RLt(min_val, b)}

CallNormalizePositive ==
    /\ fn = NoFn
    /\ fn' = "normalize_positive"
    /\ ret' = normalize_positive(x, min_val, max_val)
    /\ UNCHANGED <<inputVars, FEATURE_WEIGHTS, outputVars, edits, x, min_val, max_val>>

CallNormalizeNegative ==
    /\ fn = NoFn
    /\ fn' = "normalize_negative"
    /\ ret' = normalize_negative(x, min_val, max_val)
    /\ UNCHANGED <<inputVars, FEATURE_WEIGHTS, outputVars, edits, x, min_val, max_val>>

CallNormalizeSleep ==
    /\ fn = NoFn
    /\ fn' = "normalize_sleep"
    /\ ret' = normalize_sleep(x)
    /\ UNCHANGED <<inputVars, FEATURE_WEIGHTS, outputVars, edits, x, min_val, max_val>>

NextCall ==
    \/ CallNormalizePositive
    \/ CallNormalizeNegative
    \/ CallNormalizeSleep

SpecCall == InitCall /\ [][NextCall]_vars

----------------------------------------------------------------------------
(* Properties *)

Evaluated == mhs_score # None

Range(seq) == {seq[i] : i \in 1 .. Len(seq)}

InDomain ==
    /\ RLe(R(0), sleep_hours) /\ RLe(sleep_hours, R(12))
    /\ daily_steps \in 0 .. 30000
    /\ exercise_frequency \in 0 .. 7
    /\ exercise_duration \in 0 .. 180
    /\ diet_quality \in 1 .. 5
    /\ social_interaction \in 0 .. 20
    /\ happiness_level \in 1 .. 10
    /\ RLe(R(0), screen_time) /\ RLe(screen_time, R(12))
    /\ stress_level \in 1 .. 10
    /\ anxiety_level \in 1 .. 10
    /\ depression_level \in 1 .. 10

\* C1: for every combination of in-domain inputs the composite score shown
\* by a compute run lies in [0, 100] inclusive.
C1_ScoreInRange ==
    Evaluated =>
        /\ InDomain
        /\ RLe(R(0), mhs_score)
        /\ RLe(mhs_score, R(100))

C1_Witness ==
    /\ Evaluated
    /\ edits > 0
    /\ Inputs \notin Presets
    /\ RLt(R(0), mhs_score)
    /\ RLt(mhs_score, R(100))

\* C2: the all-optimal input scores exactly 100 and the all-worst input
\* scores exactly 0.
C2_Extremes ==
    Evaluated =>
        /\ Inputs = AllOptimal => mhs_score = R(100)
        /\ Inputs = AllWorst => mhs_score = R(0)

C2_Witness ==
    /\ Evaluated
    /\ Inputs = AllOptimal
    /\ mhs_score = R(100)

\* the piecewise reference of normalize_sleep
SleepReference(xv) ==
    CASE RLt(xv, R(4)) \/ RLt(R(12), xv) -> R(0)
      [] RLe(R(4), xv) /\ RLt(xv, R(7)) -> RMul(RSub(xv, R(4)), Rat(1, 3))
      [] RLe(R(7), xv) /\ RLe(xv, R(9)) -> R(1)
      [] RLt(R(9), xv) /\ RLe(xv, R(12)) ->
             RSub(R(1), RMul(RSub(xv, R(9)), Rat(1, 3)))

\* C3: normalize_sleep returns a number for every input and agrees with the
\* piecewise reference, boundaries 4, 7, 9 and 12 inclusive; in particular
\* f(4)=0, f(7)=1, f(9)=1, f(12)=0, f(3.9)=0, f(12.1)=0, f(5.5)=0.5.
C3_SleepPiecewise ==
    fn = "normalize_sleep" =>
        /\ ret # None
        /\ ret = SleepReference(x)
        /\ x = R(4) => ret = R(0)
        /\ x = R(7) => ret = R(1)
        /\ x = R(9) => ret = R(1)
        /\ x = R(12) => ret = R(0)
        /\ x = Rat(39, 10) => ret = R(0)
        /\ x = Rat(121, 10) => ret = R(0)
        /\ x = Rat(11, 2) => ret = Rat(1, 2)

C3_Witness ==
    /\ fn = "normalize_sleep"
    /\ x = Rat(11, 2)
    /\ ret = Rat(1, 2)

\* C4: for every x, however far outside [min, max], and every min < max,
\* normalize_positive and normalize_negative return a value in [0, 1].
C4_UnitInterval ==
    fn \in {"normalize_positive", "normalize_negative"} =>
        /\ RLt(min_val, max_val)
        /\ RLe(R(0), ret)
        /\ RLe(ret, R(1))

C4_Witness ==
    /\ fn = "normalize_negative"
    /\ x = R(-1000000)
    /\ ret = R(1)

RECURSIVE SumOver(_, _)
SumOver(w, fs) ==
    IF fs = {} THEN R(0)
    ELSE LET f == CHOOSE g \in fs : TRUE
         IN  RAdd(w[f], SumOver(w, fs \ {f}))

WeightsSound ==
    /\ DOMAIN FEATURE_WEIGHTS = Features
    /\ Cardinality(Features) = 11
    /\ \A f \in Features :
           RLe(R(0), FEATURE_WEIGHTS[f]) /\ RLe(FEATURE_WEIGHTS[f], R(1))
    /\ SumOver(FEATURE_WEIGHTS, Features) = R(1)

\* C5: the eleven weights are each in [0, 1] and sum to exactly 1, and no
\* step of the program, a compute run included, modifies the table.
C5_Weights ==
    /\ []WeightsSound
    /\ [][FEATURE_WEIGHTS' = FEATURE_WEIGHTS]_vars

C5_Witness ==
    /\ Evaluated
    /\ WeightsSound

\* the fixed category order of the rule engine
CategoryOrder ==
    <<"sleep", "screen time", "exercise", "diet", "stress", "anxiety",
      "depression", "social interaction", "happiness">>

CategoryOf(tip) ==
    CASE tip \in {"Sleep", "Sleep (oversleeping)"} -> "sleep"
      [] tip = "Screen Time" -> "screen time"
      [] tip \in {"Exercise", "Exercise Duration"} -> "exercise"
      [] tip = "Diet" -> "diet"
      [] tip = "Stress" -> "stress"
      [] tip = "Anxiety" -> "anxiety"
      [] tip = "Mood" -> "depression"
      [] tip = "Social Life" -> "social interaction"
      [] tip = "Happiness" -> "happiness"

\* the threshold check of a category on the raw values
Matches(c) ==
    CASE c = "sleep" -> RLt(sleep_hours, R(7)) \/ RLt(R(9), sleep_hours)
      [] c = "screen time" -> RLt(R(5), screen_time)
      [] c = "exercise" ->
             IF exercise_frequency < 3 THEN TRUE ELSE exercise_duration < 30
      [] c = "diet" -> diet_quality < 3
      [] c = "stress" -> stress_level > 6
      [] c = "anxiety" -> anxiety_level > 6
      [] c = "depression" -> depression_level > 6
      [] c = "social interaction" -> social_interaction < 3
      [] c = "happiness" -> happiness_level < 5

\* C6: the recommendation list is exactly the subsequence of the fixed
\* category order whose threshold checks match: one entry per matching
\* check, no category twice, never reordered.
C6_RecommendationOrder ==
    Evaluated =>
        [i \in 1 .. Len(recommendations) |-> CategoryOf(recommendations[i])]
            = SelectSeq(CategoryOrder, Matches)

C6_Witness ==
    /\ Evaluated
    /\ Inputs = Strained
    /\ Len(recommendations) = 9

\* C7: the "all good" marker is shown if and only if no rule fires; the
\* output is never empty and never holds the marker beside a
\* recommendation; the balanced example yields only the marker.
C7_AllGoodMarker ==
    Evaluated =>
        /\ shown = <<AllGood>> <=> \A i \in 1 .. Len(CategoryOrder) :
                                       ~Matches(CategoryOrder[i])
        /\ shown # <<>>
        /\ AllGood \in Range(shown) => Len(shown) = 1
        /\ Inputs = Balanced => shown = <<AllGood>>

C7_Witness ==
    /\ Evaluated
    /\ Inputs = Balanced
    /\ shown = <<AllGood>>

\* C8: the exercise-duration recommendation never appears together with the
\* exercise-frequency one: duration fires exactly when frequency >= 3 and
\* duration < 30, frequency fires exactly when frequency < 3.
C8_ExerciseExclusive ==
    Evaluated =>
        /\ ~({"Exercise", "Exercise Duration"} \subseteq Range(recommendations))
        /\ "Exercise Duration" \in Range(recommendations)
               <=> (exercise_frequency >= 3 /\ exercise_duration < 30)
        /\ "Exercise" \in Range(recommendations) <=> exercise_frequency < 3

C8_Witness ==
    /\ Evaluated
    /\ exercise_frequency < 3
    /\ exercise_duration < 30
    /\ "Exercise" \in Range(recommendations)

\* C9: every score gets exactly one tier: favorable (success) iff
\* score >= 75, fair (info) iff 50 <= score < 75, concerning (warning) iff
\* score < 50; 75 is favorable and 50 is fair.
C9_Tiers ==
    Evaluated =>
        /\ banner \in {"success", "info", "warning"}
        /\ banner = "success" <=> RLe(R(75), mhs_score)
        /\ banner = "info" <=> (RLe(R(50), mhs_score) /\ RLt(mhs_score, R(75)))
        /\ banner = "warning" <=> RLt(mhs_score, R(50))
        /\ mhs_score = R(75) => banner = "success"
        /\ mhs_score = R(50) => banner = "info"

C9_Witness ==
    /\ Evaluated
    /\ Inputs = FavorableEdge
    /\ mhs_score = R(75)
    /\ banner = "success"

PositiveFeatures ==
    {"Daily_Steps", "Exercise_Frequency", "Exercise_Duration", "Diet_Quality",
     "Social_Interaction", "Happiness_Level"}

NegativeFeatures ==
    {"Screen_Time_Hours", "Stress_Level", "Anxiety_Level", "Depression_Level"}

\* the in-domain values of feature f above its current value
Higher(f) ==
    CASE f = "Daily_Steps" -> {v \in StepsValues : v > daily_steps}
      [] f = "Exercise_Frequency" ->
             {v \in FrequencyValues : v > exercise_frequency}
      [] f = "Exercise_Duration" ->
             {v \in DurationValues : v > exercise_duration}
      [] f = "Diet_Quality" -> {v \in DietValues : v > diet_quality}
      [] f = "Social_Interaction" ->
             {v \in SocialValues : v > social_interaction}
      [] f = "Happiness_Level" -> {v \in HappinessValues : v > happiness_level}
      [] f = "Screen_Time_Hours" -> {v \in ScreenValues : RLt(screen_time, v)}
      [] f = "Stress_Level" -> {v \in LevelValues : v > stress_level}
      [] f = "Anxiety_Level" -> {v \in LevelValues : v > anxiety_level}
      [] f = "Depression_Level" -> {v \in LevelValues : v > depression_level}
      [] f = "Sleep_Hours" -> {v \in SleepValues : RLt(sleep_hours, v)}

\* the score of the current inputs with feature f set to v
ScoreWith(f, v) == MhsScore([Inputs EXCEPT ![f] = v], FEATURE_WEIGHTS)

SleepBothWays ==
    /\ \E a, b \in SleepValues :
           RLt(a, b) /\ RLt(ScoreWith("Sleep_Hours", a), ScoreWith("Sleep_Hours", b))
    /\ \E a, b \in SleepValues :
           RLt(a, b) /\ RLt(ScoreWith("Sleep_Hours", b), ScoreWith("Sleep_Hours", a))

\* C10: with the other ten inputs fixed, raising a positive contributor
\* strictly raises the score, raising a negative contributor strictly
\* lowers it, and raising sleep can do either.
C10_Direction ==
    Evaluated =>
        /\ \A f \in PositiveFeatures : \A v \in Higher(f) :
               RLt(mhs_score, ScoreWith(f, v))
        /\ \A f \in NegativeFeatures : \A v \in Higher(f) :
               RLt(ScoreWith(f, v), mhs_score)
        /\ SleepBothWays

C10_Witness ==
    /\ Evaluated
    /\ \E f \in PositiveFeatures : Higher(f) # {}
    /\ \E f \in NegativeFeatures : Higher(f) # {}
    /\ \E v \in Higher("Sleep_Hours") :
           RLt(mhs_score, ScoreWith("Sleep_Hours", v))
    /\ \E v \in Higher("Sleep_Hours") :
           RLt(ScoreWith("Sleep_Hours", v), mhs_score)

====
